---- MODULE Spec2Model ----
(***************************************************************************)
(* The track-selection routes of the Songsight data-science backend:       *)
(*   song_suggester/app.py : get_range, get_like, get_random               *)
(*   songsight_es/app.py   : getlike                                       *)
(* One action per route handler.  The catalog (table "track") and the      *)
(* KDTree unpickled at start-up are the program state; resp is the         *)
(* response of the last request served and repeated tells whether that     *)
(* request had the route and arguments of the request served before it.    *)
(***************************************************************************)
EXTENDS Integers, Sequences, FiniteSets

VARIABLES catalog, tree, resp, repeated

vars == <<catalog, tree, resp, repeated>>

(* ------------------------------ bounds -------------------------------- *)

\* largest number of rows of the track table
MaxTracks == 3
\* largest value of the request argument num
MaxNum == 2
\* largest value of the request argument top
MaxTop == 2

(* ----------------------------- small helpers -------------------------- *)

Min(a, b) == IF a <= b THEN a ELSE b

\* the elements of s at the positions in 1..Len(s) that satisfy Keep, in order
RECURSIVE SelectPos(_, _, _)
SelectPos(s, keep, i) ==
    IF i > Len(s) THEN <<>>
    ELSE (IF i \in keep THEN <<s[i]>> ELSE <<>>) \o SelectPos(s, keep, i + 1)

\* SQL LIMIT n OFFSET o over an ordered row sequence
LimitOffset(rows, n, o) ==
    SubSeq(rows, o + 1, Min(o + n, Len(rows)))

(* ------------------------------ the catalog --------------------------- *)

\* the rows a catalog is drawn from: the KDTree features of a row (two of
\* the scaled dimensions) and two of its display features
RowPool ==
    { [vec |-> <<0, 0>>, loudness |-> -1, popularity |-> 2],
      [vec |-> <<1, 0>>, loudness |->  0, popularity |-> 1],
      [vec |-> <<1, 1>>, loudness |->  1, popularity |-> 2] }

TrackIds == [i \in 1..(MaxTracks + 1) |->
                CASE i = 1 -> "T1" [] i = 2 -> "T2" [] i = 3 -> "T3"
                  [] i = 4 -> "T4" [] OTHER -> "T5"]

\* a track_id no row carries
AbsentId == "absent"

\* the table "track": row i has the integer key id = i - 1 (the position
\* of its vector in the data the KDTree was built from) and a unique track_id
MkCatalog(ps) ==
    [i \in 1..Len(ps) |->
        [id |-> i - 1, track_id |-> TrackIds[i], vec |-> ps[i].vec,
         loudness |-> ps[i].loudness, popularity |-> ps[i].popularity]]

Catalogs ==
    { MkCatalog(ps) : ps \in UNION { [1..n -> RowPool] : n \in 1..MaxTracks } }

\* Track.to_array: the vector the KDTree compares
to_array(row) == row.vec

\* Track.to_dict / __repr__: what a response prints of a row
to_dict(row) ==
    [track_id |-> row.track_id, loudness |-> row.loudness,
     popularity |-> row.popularity]

ReprAll(rows) == [i \in 1..Len(rows) |-> to_dict(rows[i])]

(* ------------------------------ the KDTree ---------------------------- *)

\* tree = pickle.load(open('tree.p', 'rb')): the vectors it was built from,
\* in row order (index i - 1 of the tree is Track.id of row i), which of
\* several equidistant points its traversal reports first, and the library
\* the pickled object comes from (the source imports neither)
Trees(cat) ==
    { [data |-> [i \in 1..Len(cat) |-> to_array(cat[i])], tie |-> t, kind |-> k] :
        t \in {"low", "high"}, k \in {"sklearn", "scipy"} }

\* squared Euclidean distance
Dist2(p, q) == (p[1] - q[1]) * (p[1] - q[1]) + (p[2] - q[2]) * (p[2] - q[2])

\* point i is reported before point j, d the distances of the points from
\* the query vector
Closer(d, tie, i, j) ==
    \/ d[i] < d[j]
    \/ d[i] = d[j] /\ IF tie = "low" THEN i < j ELSE i > j

\* an array given by its elements, as the sequence of their values
AsArray(f) == f \o <<>>

\* all points of the tree by ascending distance from q
KnnOrder(tr, q) ==
    LET n   == Len(tr.data)
        d   == AsArray([i \in 1..n |-> Dist2(tr.data[i], q)])
        pos == AsArray([i \in 1..n |->
                  1 + Cardinality({ j \in 1..n : Closer(d, tr.tie, j, i) })])
    IN AsArray([p \in 1..n |-> CHOOSE i \in 1..n : pos[i] = p])

\* tree.query with k larger than the number of points: sklearn raises
\* ValueError, scipy pads the result
TreeQueryFails(tr, k) == tr.kind = "sklearn" /\ k > Len(tr.data)

\* ind[0] of tree.query(q, k): 0-based indices; scipy pads with n
TreeQuery(tr, q, k) ==
    LET order == KnnOrder(tr, q)
    IN AsArray([p \in 1..k |-> IF p <= Len(tr.data) THEN order[p] - 1
                               ELSE Len(tr.data)])

(* ------------------------------ responses ----------------------------- *)

\* status: "ok" (HTTP 200) or "error" (uncaught exception, a server error)
\* repr  : how the tracks are printed: "list" (str of a list), "dict"
\*         (str of the empty dictionary, '{}'), "json" (the f-string of
\*         get_like / get_random / getlike)
\* body  : the tracks printed, in order; seed: the seed row printed
\* ind   : the indices tree.query returned; evaluated: eval() ran on the
\*         feature name; queried: tree.query was called
OkResp(op, args, repr, body, seed, ind, evaluated, queried) ==
    [op |-> op, args |-> args, status |-> "ok", exc |-> "", repr |-> repr,
     body |-> body, seed |-> seed, ind |-> ind, evaluated |-> evaluated,
     queried |-> queried]

ErrResp(op, args, exc, evaluated, queried) ==
    [op |-> op, args |-> args, status |-> "error", exc |-> exc, repr |-> "",
     body |-> <<>>, seed |-> {}, ind |-> <<>>, evaluated |-> evaluated,
     queried |-> queried]

NoResp ==
    [op |-> "", args |-> <<>>, status |-> "", exc |-> "", repr |-> "",
     body |-> <<>>, seed |-> {}, ind |-> <<>>, evaluated |-> FALSE,
     queried |-> FALSE]

(* ------------------------------ get_like ------------------------------ *)

\* Track.query.filter(Track.track_id == seed).first(): the row or None
SeedRow(cat, seed) ==
    { cat[i] : i \in { j \in 1..Len(cat) :
                        /\ cat[j].track_id = seed
                        /\ \A h \in 1..(j - 1) : cat[h].track_id # seed } }

IndexSet(ind) == { ind[p] : p \in 1..Len(ind) }

\* the mutated query: the seed is not filtered out
LikeQueryKeepSeed(cat, ind, seed) ==
    SelectPos(cat, { i \in 1..Len(cat) : cat[i].id \in IndexSet(ind) }, 1)

\* Track.query.filter(Track.id.in_(indices)).filter(Track.track_id != seed).all()
LikeQuery(cat, ind, seed) ==
    SelectPos(cat, { i \in 1..Len(cat) : /\ cat[i].id \in IndexSet(ind)
                                          /\ cat[i].track_id # seed }, 1)

LikeArgs(seed, num) == [seed |-> seed, num |-> num]

\* the mutated handler: an absent seed is answered with an empty result
GetLikeRespNoneGuard(cat, tr, seed, num) ==
    IF SeedRow(cat, seed) = {}
    THEN OkResp("get_like", LikeArgs(seed, num), "json", <<>>, {}, <<>>,
                FALSE, FALSE)
    ELSE LET q1 == CHOOSE r \in SeedRow(cat, seed) : TRUE
         IN IF TreeQueryFails(tr, num + 1)
            THEN ErrResp("get_like", LikeArgs(seed, num), "ValueError",
                         FALSE, TRUE)
            ELSE LET ind == TreeQuery(tr, to_array(q1), num + 1)
                 IN OkResp("get_like", LikeArgs(seed, num), "json",
                           ReprAll(LikeQuery(cat, ind, seed)), {to_dict(q1)},
                           ind, FALSE, TRUE)

\* the response of get_like
GetLikeResp(cat, tr, seed, num) ==
    IF SeedRow(cat, seed) = {}
    THEN \* q1 is None: q1.to_array() raises before tree.query is called
         ErrResp("get_like", LikeArgs(seed, num), "AttributeError", FALSE, FALSE)
    ELSE LET q1 == CHOOSE r \in SeedRow(cat, seed) : TRUE
         IN IF TreeQueryFails(tr, num + 1)
            THEN ErrResp("get_like", LikeArgs(seed, num), "ValueError",
                         FALSE, TRUE)
            ELSE LET ind == TreeQuery(tr, to_array(q1), num + 1)
                 IN OkResp("get_like", LikeArgs(seed, num), "json",
                           ReprAll(LikeQuery(cat, ind, seed)), {to_dict(q1)},
                           ind, FALSE, TRUE)

(* ------------------------- getlike (songsight_es) --------------------- *)

\* int(rowCount*random.random()) with random.random() in [0, 1)
Offsets(rowCount) == IF rowCount = 0 THEN {0} ELSE 0..(rowCount - 1)

\* Track.query.filter(Track.track_id != seed)
NotSeed(cat, seed) ==
    SelectPos(cat, { i \in 1..Len(cat) : cat[i].track_id # seed }, 1)

\* the response of getlike for the random offset drawn
GetlikeEsResp(cat, seed, num, offset) ==
    LET q1 == SeedRow(cat, seed)
        q2 == NotSeed(cat, seed)
    IN OkResp("getlike", LikeArgs(seed, num), "json",
              ReprAll(LimitOffset(q2, num, offset)),
              { to_dict(r) : r \in q1 }, <<>>, FALSE, FALSE)

(* ---------------------------- feature names -------------------------- *)

\* the display features of a row (Track.to_dict), two of them modelled
KnownFeatures == {"popularity", "loudness"}

\* the strings a request may carry as audio_feature / feature: the known
\* names, a Python expression over a column, and a name Track does not have
FeatureNames == KnownFeatures \cup {"loudness.__neg__()", "no_such_feature"}

\* eval(f'Track.{name}') succeeds (otherwise it raises AttributeError)
HasAttr(name) == name # "no_such_feature"

\* the value of the evaluated expression Track.<name> on a row
FeatureValue(row, name) ==
    CASE name = "popularity" -> row.popularity
      [] name = "loudness" -> row.loudness
      [] name = "loudness.__neg__()" -> 0 - row.loudness

(* ------------------------------ get_range ----------------------------- *)

\* limit: default=200
DefaultLimit == 200

\* request.args.get('min', type=float): {} is None, {v} the value v
BoundValues == {-1, 0, 1}

Bounds == {{}} \cup { {v} : v \in BoundValues }

Val(b) == CHOOSE v \in b : TRUE

\* the truth value Python gives an optional float: None and 0.0 are false
Truthy(b) == b # {} /\ b # {0}

RangeArgs(feature, mn, mx, limit) ==
    [audio_feature |-> feature, min |-> mn, max |-> mx, limit |-> limit]

\* Track.query.filter(<condition>).limit(limit).all(), lo / hi the bounds the
\* condition names ({}: the condition does not name that bound)
RangeQuery(cat, feature, lo, hi, limit) ==
    LimitOffset(
        SelectPos(cat, { i \in 1..Len(cat) :
                          /\ lo = {} \/ FeatureValue(cat[i], feature) >= Val(lo)
                          /\ hi = {} \/ FeatureValue(cat[i], feature) <= Val(hi) }, 1),
        limit, 0)

\* the mutated handler: a request without bounds lists every track
RangeRespScanAll(cat, feature, mn, mx, limit) ==
    IF ~HasAttr(feature)
    THEN ErrResp("get_range", RangeArgs(feature, mn, mx, limit),
                 "AttributeError", TRUE, FALSE)
    ELSE OkResp("get_range", RangeArgs(feature, mn, mx, limit), "list",
                ReprAll(RangeQuery(cat, feature, mn, mx, limit)), {}, <<>>,
                TRUE, FALSE)

\* the response of get_range
RangeResp(cat, feature, mn, mx, limit) ==
    LET args == RangeArgs(feature, mn, mx, limit)
        lo   == IF Truthy(mn) THEN mn ELSE {}
        hi   == IF Truthy(mx) THEN mx ELSE {}
    IN IF ~Truthy(mn) /\ ~Truthy(mx)
       THEN \* tracks = {} is returned as it is: str(tracks) = '{}'
            OkResp("get_range", args, "dict", <<>>, {}, <<>>, FALSE, FALSE)
       ELSE IF ~HasAttr(feature)
            THEN ErrResp("get_range", args, "AttributeError", TRUE, FALSE)
            ELSE OkResp("get_range", args, "list",
                        ReprAll(RangeQuery(cat, feature, lo, hi, limit)), {},
                        <<>>, TRUE, FALSE)

(* ------------------------------ get_random ---------------------------- *)

\* row i comes before row j in ORDER BY <feature> [DESC]; rows of equal
\* value keep the table's order
RankBefore(cat, feature, order, i, j) ==
    LET vi == FeatureValue(cat[i], feature)
        vj == FeatureValue(cat[j], feature)
    IN \/ IF order = "asc" THEN vi < vj ELSE vi > vj
       \/ vi = vj /\ i < j

\* Track.query.order_by(...): the whole table in ranked order
Ranked(cat, feature, order) ==
    [p \in 1..Len(cat) |->
        cat[CHOOSE i \in 1..Len(cat) :
              Cardinality({ j \in 1..Len(cat) :
                              RankBefore(cat, feature, order, j, i) }) = p - 1]]

RandomArgs(feature, num, top, order) ==
    [feature |-> feature, num |-> num, top |-> top, order |-> order]

\* q.count(): SELECT count(*) FROM (SELECT ... ORDER BY ... LIMIT top)
RowCount(cat, top) == Min(top, Len(cat))

\* the response of get_random for the random offset drawn; the limit(num)
\* of line 332 replaces the limit(top) of the same Query
RandomResp(cat, feature, num, top, order, offset) ==
    IF ~HasAttr(feature)
    THEN ErrResp("get_random", RandomArgs(feature, num, top, order),
                 "AttributeError", TRUE, FALSE)
    ELSE OkResp("get_random", RandomArgs(feature, num, top, order), "json",
                ReprAll(LimitOffset(Ranked(cat, feature, order), num, offset)),
                {}, <<>>, TRUE, FALSE)

(* ------------------------------ requests ------------------------------ *)

Seeds(cat) == { cat[i].track_id : i \in 1..Len(cat) } \cup {AbsentId}

Nums == 1..MaxNum

Init ==
    /\ catalog \in Catalogs
    /\ tree \in Trees(catalog)
    /\ resp = NoResp
    /\ repeated = FALSE

\* the mutated return: the handler unpickles a tree again for the request
ServeReloadTree(r) ==
    /\ resp' = r
    /\ repeated' = (resp'.op = resp.op /\ resp'.args = resp.args)
    /\ tree' \in Trees(catalog)
    /\ UNCHANGED catalog

\* a handler returns r: no handler writes the table or the tree
Serve(r) ==
    /\ resp' = r
    /\ repeated' = (resp'.op = resp.op /\ resp'.args = resp.args)
    /\ UNCHANGED <<catalog, tree>>

\* the get_like handler with a random offset, as getlike has it
GetLikeRandomised ==
    \E seed \in Seeds(catalog), num \in Nums :
      \E offset \in Offsets(Len(NotSeed(catalog, seed))) :
        Serve([GetlikeEsResp(catalog, seed, num, offset) EXCEPT !.op = "get_like"])

\* GET /get_like
GetLike ==
    \E seed \in Seeds(catalog), num \in Nums :
      Serve(GetLikeResp(catalog, tree, seed, num))

\* GET /getlike
GetlikeEs ==
    \E seed \in Seeds(catalog), num \in Nums :
      \E offset \in Offsets(Len(NotSeed(catalog, seed))) :
        Serve(GetlikeEsResp(catalog, seed, num, offset))

Limits == {1, DefaultLimit}

Tops == 1..MaxTop

Orders == {"asc", "desc"}

\* GET /get_range
GetRange ==
    \E feature \in FeatureNames, mn \in Bounds, mx \in Bounds, limit \in Limits :
      Serve(RangeResp(catalog, feature, mn, mx, limit))

\* GET /get_random
GetRandom ==
    \E feature \in FeatureNames, num \in Nums, top \in Tops, order \in Orders :
      \E offset \in Offsets(RowCount(catalog, top)) :
        Serve(RandomResp(catalog, feature, num, top, order, offset))

Next == GetRange \/ GetLike \/ GetRandom \/ GetlikeEs

Spec == Init /\ [][Next]_vars

\* get_range and get_random never read the tree: one tree for each catalog
InitQuery == Init /\ tree.tie = "low" /\ tree.kind = "sklearn"

SpecRange == InitQuery /\ [][GetRange]_vars

SpecRandom == InitQuery /\ [][GetRandom]_vars

NextLike == GetLike \/ GetlikeEs

SpecLike == Init /\ [][NextLike]_vars

(* ------------------------- claims on get_like ------------------------- *)

IsLike == resp.op \in {"get_like", "getlike"}

BodyIds == { resp.body[p].track_id : p \in 1..Len(resp.body) }

\* C1: no response of get_like or getlike lists the track whose track_id is
\* the seed of the request, whatever indices the tree returned.
C1_SeedNeverReturned == IsLike => resp.args.seed \notin BodyIds

\* C1 witness: get_like answered with neighbours for a seed of the catalog
\* whose own index is not among the num+1 indices the tree returned.
C1_Witness ==
    /\ resp.op = "get_like" /\ resp.status = "ok" /\ resp.body # <<>>
    /\ \E r \in SeedRow(catalog, resp.args.seed) : r.id \notin IndexSet(resp.ind)

\* C2: every answer of get_like for a seed of the catalog lists exactly
\* min(num, C-1) tracks, C the number of rows.
C2_ExactCount ==
    (resp.op = "get_like" /\ resp.status = "ok")
        => Len(resp.body) = Min(resp.args.num, Len(catalog) - 1)

C9_AbsentSeedFails ==
    (resp.op = "get_like" /\ SeedRow(catalog, resp.args.seed) = {})
        => /\ resp.status = "error"
           /\ ~resp.queried
           /\ resp.ind = <<>> /\ resp.body = <<>>

\* C9 witness: get_like was asked for the absent seed and failed.
C9_Witness ==
    resp.op = "get_like" /\ resp.args.seed = AbsentId /\ resp.status = "error"

(* ------------------------- claims on get_range ------------------------ *)

IsRange == resp.op = "get_range"

BothSupplied == resp.args.min # {} /\ resp.args.max # {}

\* the value of the requested feature lies in [min, max]
InRange(d) ==
    /\ FeatureValue(d, resp.args.audio_feature) >= Val(resp.args.min)
    /\ FeatureValue(d, resp.args.audio_feature) <= Val(resp.args.max)

\* C3: get_range with min and max both supplied (0 and negative values
\* included) answers, and lists only tracks whose value of the feature is in
\* [min, max]; nothing when min > max.
C3_OnlyInRange ==
    (IsRange /\ BothSupplied /\ resp.args.audio_feature \in KnownFeatures)
        => /\ resp.status = "ok"
           /\ \A p \in 1..Len(resp.body) : InRange(resp.body[p])

\* C4 as claimed: get_range with neither min nor max answers with an empty
\* sequence, for every feature name and limit.
C4_NoBoundsEmptyList ==
    (IsRange /\ resp.args.min = {} /\ resp.args.max = {})
        => resp.status = "ok" /\ resp.repr = "list" /\ resp.body = <<>>

\* C4 as amended: get_range with neither min nor max answers with the empty
\* dictionary '{}', listing no track and raising no error, for every feature
\* name and limit.
C4_NoBoundsEmptyDict ==
    (IsRange /\ resp.args.min = {} /\ resp.args.max = {})
        => resp.status = "ok" /\ resp.repr = "dict" /\ resp.body = <<>>

\* C4 witness: get_range answered a request without bounds for a feature
\* name Track does not have, on a catalog of several tracks.
C4_Witness ==
    /\ IsRange /\ resp.args.min = {} /\ resp.args.max = {}
    /\ resp.args.audio_feature = "no_such_feature"
    /\ resp.status = "ok" /\ Len(catalog) > 1

\* what the docstring of get_range and the framework give a failed request:
\* the empty dictionary, or a server error
FailureOutcome(r) == r.status = "error" \/ r.repr = "dict"

\* C10: a get_range request whose supplied bounds match no track is not
\* answered with a failure outcome.
C10_ZeroMatchesNotFailure ==
    (/\ IsRange /\ BothSupplied /\ resp.args.audio_feature \in KnownFeatures
     /\ \A i \in 1..Len(catalog) : ~InRange(catalog[i]))
        => ~FailureOutcome(resp)

(* ------------------------- claims on get_random ----------------------- *)

IsRandom == resp.op = "get_random"

\* the 1-based rank of the track of a printed row in the ordering requested
RankOf(d) ==
    CHOOSE p \in 1..Len(catalog) :
        Ranked(catalog, resp.args.feature, resp.args.order)[p].track_id = d.track_id

\* min(top_n, catalog size)
WindowSize == Min(resp.args.top, Len(catalog))

\* C5: every track get_random lists has a rank inside the first top
\* entries of the ordering, and the ranks listed are consecutive.
C5_WithinWindow ==
    (IsRandom /\ resp.status = "ok" /\ resp.args.feature \in KnownFeatures)
        => /\ \A p \in 1..Len(resp.body) : RankOf(resp.body[p]) <= resp.args.top
           /\ \A p \in 1..(Len(resp.body) - 1) :
                 RankOf(resp.body[p + 1]) = RankOf(resp.body[p]) + 1

\* C6: get_random lists exactly min(num, window size) tracks, and the whole
\* window when num >= top.
C6_WindowSample ==
    (IsRandom /\ resp.status = "ok" /\ resp.args.feature \in KnownFeatures)
        => /\ Len(resp.body) = Min(resp.args.num, WindowSize)
           /\ resp.args.num >= resp.args.top
                => resp.body = ReprAll(SubSeq(Ranked(catalog, resp.args.feature,
                                                      resp.args.order),
                                              1, WindowSize))

\* C8: get_range and get_random given a feature name outside the known set
\* end in an error, list no track and do not evaluate the name.
C8_UnknownFeatureRejected ==
    (/\ resp.op \in {"get_range", "get_random"}
     /\ (IF IsRange THEN resp.args.audio_feature ELSE resp.args.feature)
            \notin KnownFeatures)
        => resp.status = "error" /\ resp.body = <<>> /\ ~resp.evaluated

(* --------------------- claims on the shared state --------------------- *)

\* the frame of a request does not depend on which of several equidistant
\* points the tree reports first: one tie order for each catalog and library
InitFrame == Init /\ tree.tie = "low"

\* requests of all four routes, in any order
SpecFrame == InitFrame /\ [][Next]_vars

\* C11: no request of get_range, get_like, get_random or getlike, in any
\* order, changes the rows of the track table or the tree loaded at start-up.
C11_CatalogAndTreeUnchanged ==
    [][catalog' = catalog /\ tree' = tree]_vars

\* C11 witness: get_like queried the tree and answered with neighbours, right
\* after a request of another route or with other arguments.
C11_Witness ==
    /\ resp.op = "get_like" /\ resp.queried /\ resp.status = "ok"
    /\ resp.body # <<>> /\ ~repeated

(* ----------------------- the four-track scenario ---------------------- *)

\* the catalog {A:[0,0], B:[1,0], C:[5,5], D:[1,1]}
ScenarioRows ==
    { [track_id |-> "A", vec |-> <<0, 0>>, loudness |-> 0, popularity |-> 0],
      [track_id |-> "B", vec |-> <<1, 0>>, loudness |-> 0, popularity |-> 0],
      [track_id |-> "C", vec |-> <<5, 5>>, loudness |-> 0, popularity |-> 0],
      [track_id |-> "D", vec |-> <<1, 1>>, loudness |-> 0, popularity |-> 0] }

\* the scenario's rows stored in every order, row i with id = i - 1
ScenarioCatalogs ==
    { [i \in 1..Cardinality(ScenarioRows) |->
          [id |-> i - 1, track_id |-> ps[i].track_id, vec |-> ps[i].vec,
           loudness |-> ps[i].loudness, popularity |-> ps[i].popularity]] :
        ps \in { f \in [1..Cardinality(ScenarioRows) -> ScenarioRows] :
                   \A i, j \in DOMAIN f : f[i] = f[j] => i = j } }

InitScenario ==
    /\ catalog \in ScenarioCatalogs
    /\ tree \in Trees(catalog)
    /\ resp = NoResp
    /\ repeated = FALSE

SpecScenario == InitScenario /\ [][GetLike]_vars

\* the track_ids a response lists, in order
BodyIdSeq == AsArray([p \in 1..Len(resp.body) |-> resp.body[p].track_id])

\* C12: on the scenario catalog, in whatever order its rows are stored,
\* get_like for seed A and num 2 lists B then D.
C12_ScenarioOrder ==
    (resp.op = "get_like" /\ resp.args = LikeArgs("A", 2))
        => resp.status = "ok" /\ BodyIdSeq = <<"B", "D">>

====
